---- MODULE Spec2Model ----
(***************************************************************************)
(* fast-fibonacci: F(n) mod m by exponentiation by squaring of the 2x2     *)
(* matrix [[0,1],[1,1]], once over u64 (with BigUint intermediates in the  *)
(* multiply) and once over BigUint.  The model is the call stack of one    *)
(* thread: every frame is a function activation with its position (pc)     *)
(* and its locals; one action per basic block of src/src/lib.rs.           *)
(***************************************************************************)
EXTENDS Integers, Sequences, FiniteSets, TLC

\* Width of the bounded unsigned type (u64 in the source, scaled down).
W == 4
\* Largest Fibonacci index a test passes to an entry point.
MaxN == 12

RECURSIVE Pow2(_)
Pow2(k) == IF k = 0 THEN 1 ELSE 2 * Pow2(k - 1)

TwoW == Pow2(W)
U64Max == TwoW - 1

\* Wrapping of an unbounded value into the bounded unsigned type.
U64(x) == x % TwoW

\* Operand and modulus values used when multiply_with_mod is called on its own.
EdgeVals == {1, U64Max - 1, U64Max}
EdgeMods == {1, U64Max - 1, U64Max}

VARIABLES modulo, calls, stack, retMat, results, status,
          mul_calls, pow_calls, wrapped, trace

vars == <<modulo, calls, stack, retMat, results, status,
          mul_calls, pow_calls, wrapped, trace>>

----------------------------------------------------------------------------
\* Matrices: Array2 indexed [[i, j]] with i, j in 0..1.

arr2(a, b, c, d) == [i \in 0..1 |-> [j \in 0..1 |->
                       IF i = 0 THEN (IF j = 0 THEN a ELSE b)
                                ELSE (IF j = 0 THEN c ELSE d)]]

zeros == arr2(0, 0, 0, 0)

\* let t = arr2(&[[0, 1], [1, 1]]);
t == arr2(0, 1, 1, 1)

\* let f = vec![0, 1];
f == [i \in 0..1 |-> i]

Matrices(S) == {arr2(a, b, c, d) : a \in S, b \in S, c \in S, d \in S}

----------------------------------------------------------------------------
\* BigUint::to_radix_be(10): most significant digit first, [0] for zero.
RECURSIVE to_radix_be(_)
to_radix_be(v) == IF v < 10 THEN <<v>>
                  ELSE Append(to_radix_be(v \div 10), v % 10)

\* for i in 0..digits.len() - 1 { result = result + digits[i]; result = result * 10; }
RECURSIVE radix_loop(_, _, _)
radix_loop(digits, i, result) ==
    IF i > Len(digits) - 1 THEN result
    ELSE radix_loop(digits, i + 1, U64(U64(result + digits[i]) * 10))

\* TRUE iff some u64 addition or multiplication of the loop exceeds the type.
RECURSIVE radix_loop_wraps(_, _, _)
radix_loop_wraps(digits, i, result) ==
    IF i > Len(digits) - 1 THEN result + digits[Len(digits)] > U64Max
    ELSE \/ result + digits[i] > U64Max
         \/ U64(result + digits[i]) * 10 > U64Max
         \/ radix_loop_wraps(digits, i + 1, U64(U64(result + digits[i]) * 10))

small_big_int_to_u64(big_int) ==
    LET digits == to_radix_be(big_int)
    IN  U64(radix_loop(digits, 1, 0) + digits[Len(digits)])

small_big_int_to_u64_wraps(big_int) ==
    radix_loop_wraps(to_radix_be(big_int), 1, 0)

\* The same cell update done directly in the bounded type (no widening).
multiply_cell_narrow(mat_ij, a_ik, b_kj, m) ==
    U64(mat_ij + U64(a_ik * b_kj)) % m

\* multiply_with_mod, body of the k loop: operands widened to BigUint,
\* multiply-accumulate, reduce, narrow.
multiply_cell(mat_ij, a_ik, b_kj, m) ==
    small_big_int_to_u64((mat_ij + (a_ik * b_kj)) % m)

multiply_cell_wraps(mat_ij, a_ik, b_kj, m) ==
    small_big_int_to_u64_wraps((mat_ij + (a_ik * b_kj)) % m)

\* bigfib_multiply, body of the k loop.
bigfib_cell(mat_ij, a_ik, b_kj, m) ==
    (mat_ij + (a_ik * b_kj)) % m

\* The answer loop adding the matrix entry a second time.
answer_step_double(answer, p_0i, f_i, m) ==
    U64(U64(answer + U64(p_0i * f_i)) + p_0i) % m

\* fib_with_mod, body of the answer loop, in u64 arithmetic.
answer_step(answer, p_0i, f_i, m) ==
    U64(answer + U64(p_0i * f_i)) % m

answer_step_wraps(answer, p_0i, f_i, m) ==
    \/ p_0i * f_i > U64Max
    \/ answer + U64(p_0i * f_i) > U64Max

\* The answer loop adding the matrix entry a second time.
big_answer_step_double(answer, p_0i, f_i, m) ==
    ((answer + (p_0i * f_i)) + p_0i) % m

\* bigfib_with_mod, body of the answer loop.
big_answer_step(answer, p_0i, f_i, m) ==
    (answer + (p_0i * f_i)) % m

----------------------------------------------------------------------------
\* Stack frames.  Every frame carries the locals of all functions; a
\* function uses only its own.

Frame(fn, pc, n, mat, pow, a, b) ==
    [fn |-> fn, pc |-> pc, n |-> n, mat |-> mat, pow |-> pow,
     a |-> a, b |-> b, return_mat |-> zeros, x |-> zeros,
     i |-> 0, j |-> 0, k |-> 0, answer |-> 0, mul0 |-> mul_calls]

EntryFrame(fn, n) == Frame(fn, "start", n, zeros, 0, zeros, zeros)
PowerFrame(fn, mat, pow) == Frame(fn, "start", 0, mat, pow, zeros, zeros)
MultiplyFrame(fn, a, b) == Frame(fn, "loop", 0, zeros, 0, a, b)

Depth == Len(stack)
Top == stack[Depth]
Running(fn, pc) == /\ status = "running"
                   /\ Depth > 0
                   /\ Top.fn = fn
                   /\ Top.pc = pc

Last(s) == s[Len(s)]
Pop == SubSeq(stack, 1, Depth - 1)
SetTop(fr) == [stack EXCEPT ![Depth] = fr]
PushOver(fr, callee) == Append(SetTop(fr), callee)

Result(fn, n, outcome, value, mat) ==
    [fn |-> fn, n |-> n, outcome |-> outcome, value |-> value, mat |-> mat,
     mul_calls |-> mul_calls, pow_calls |-> pow_calls, trace |-> trace]

Call(fn, n, a, b) == [fn |-> fn, n |-> n, a |-> a, b |-> b]

\* A panic unwinds the whole thread: the call fails and no later call runs.
Panic(fn, n) ==
    /\ status' = "panicked"
    /\ results' = Append(results, Result(fn, n, "panicked", 0, zeros))
    /\ stack' = <<>>
    /\ calls' = <<>>
    /\ UNCHANGED <<modulo, retMat, mul_calls, pow_calls, wrapped, trace>>

----------------------------------------------------------------------------
\* Initial states: a test is a list of calls made one after the other with
\* one modulus.

EntryPoints == {"fib_with_mod", "bigfib_with_mod"}

InitEntry ==
    /\ modulo \in 0..U64Max
    /\ \E n \in 0..MaxN :
         \/ \E first \in EntryPoints, second \in EntryPoints :
              /\ first # second
              /\ calls = <<Call(first, n, zeros, zeros),
                           Call(second, n, zeros, zeros)>>
         \/ /\ n >= 2
            /\ calls = <<Call("fib_with_mod", n, zeros, zeros),
                         Call("fib_with_mod", n - 1, zeros, zeros),
                         Call("fib_with_mod", n - 2, zeros, zeros)>>

InitMultiply ==
    /\ modulo \in EdgeMods
    /\ \E a \in Matrices(EdgeVals), b \in Matrices(EdgeVals) :
         calls = <<Call("multiply_with_mod", 0, a, b)>>

\* Nothing has been called yet.
InitIdle ==
    /\ stack = <<>>
    /\ retMat = zeros
    /\ results = <<>>
    /\ status = "idle"
    /\ mul_calls = 0
    /\ pow_calls = 0
    /\ wrapped = FALSE
    /\ trace = <<>>

Init ==
    /\ InitEntry \/ InitMultiply
    /\ InitIdle

\* The tests of the public entry points only.
InitEntryOnly ==
    /\ InitEntry
    /\ InitIdle

\* The caller of the library makes its next call.
test_call ==
    /\ status = "idle"
    /\ calls # <<>>
    /\ LET c == Head(calls) IN
         /\ mul_calls' = IF c.fn = "multiply_with_mod" THEN 1 ELSE 0
         /\ stack' = IF c.fn = "multiply_with_mod"
                     THEN <<[MultiplyFrame(c.fn, c.a, c.b) EXCEPT !.mul0 = 0]>>
                     ELSE <<[EntryFrame(c.fn, c.n) EXCEPT !.mul0 = 0]>>
    /\ calls' = Tail(calls)
    /\ status' = "running"
    /\ pow_calls' = 0
    /\ trace' = <<>>
    /\ retMat' = zeros
    /\ UNCHANGED <<modulo, results, wrapped>>

\* An entry point (or a directly called function) hands its value back.
ReturnToTest(fn, n, value, mat) ==
    /\ status' = "idle"
    /\ stack' = <<>>
    /\ results' = Append(results, Result(fn, n, "returned", value, mat))
    /\ UNCHANGED <<modulo, calls, retMat, mul_calls, pow_calls, wrapped, trace>>

----------------------------------------------------------------------------
\* fib_with_mod

\* fib_with_mod without its n == 1 short-circuit.
fib_with_mod_start_no_one ==
    /\ Running("fib_with_mod", "start")
    /\ IF Top.n = 0 THEN
            /\ ReturnToTest("fib_with_mod", Top.n, 0, zeros)
       ELSE /\ stack' = PushOver([Top EXCEPT !.pc = "power_t"],
                                 PowerFrame("matrix_power_with_mod", t, Top.n))
            /\ pow_calls' = pow_calls + 1
            /\ UNCHANGED <<modulo, calls, retMat, results, status,
                           mul_calls, wrapped, trace>>

\* fib_with_mod without its n == 0 short-circuit.
fib_with_mod_start_no_zero ==
    /\ Running("fib_with_mod", "start")
    /\ IF Top.n = 1 THEN
            /\ ReturnToTest("fib_with_mod", Top.n, 1, zeros)
       ELSE /\ stack' = PushOver([Top EXCEPT !.pc = "power_t"],
                                 PowerFrame("matrix_power_with_mod", t, Top.n))
            /\ pow_calls' = pow_calls + 1
            /\ UNCHANGED <<modulo, calls, retMat, results, status,
                           mul_calls, wrapped, trace>>

\* if n == 0 { return 0; } if n == 1 { return 1; }
\* ... let power_t = matrix_power_with_mod(&t, n, modulo);
fib_with_mod_start ==
    /\ Running("fib_with_mod", "start")
    /\ IF Top.n = 0 THEN
            /\ ReturnToTest("fib_with_mod", Top.n, 0, zeros)
       ELSE IF Top.n = 1 THEN
            /\ ReturnToTest("fib_with_mod", Top.n, 1, zeros)
       ELSE /\ stack' = PushOver([Top EXCEPT !.pc = "power_t"],
                                 PowerFrame("matrix_power_with_mod", t, Top.n))
            /\ pow_calls' = pow_calls + 1
            /\ UNCHANGED <<modulo, calls, retMat, results, status,
                           mul_calls, wrapped, trace>>

\* power_t is bound to the returned matrix; let mut answer = 0;
fib_with_mod_power_t ==
    /\ Running("fib_with_mod", "power_t")
    /\ stack' = SetTop([Top EXCEPT !.pc = "loop", !.x = retMat,
                                   !.answer = 0, !.i = 0])
    /\ UNCHANGED <<modulo, calls, retMat, results, status,
                   mul_calls, pow_calls, wrapped, trace>>

\* answer = (answer + (power_t[[0, i]] * f[i])) % modulo;
fib_with_mod_loop ==
    /\ Running("fib_with_mod", "loop")
    /\ Top.i < 2
    /\ IF modulo = 0 THEN Panic("fib_with_mod", Top.n)
       ELSE /\ stack' = SetTop([Top EXCEPT
                   !.answer = answer_step(Top.answer, Top.x[0][Top.i],
                                          f[Top.i], modulo),
                   !.i = Top.i + 1])
            /\ wrapped' = (wrapped \/ answer_step_wraps(Top.answer,
                                          Top.x[0][Top.i], f[Top.i], modulo))
            /\ UNCHANGED <<modulo, calls, retMat, results, status,
                           mul_calls, pow_calls, trace>>

\* answer
fib_with_mod_return ==
    /\ Running("fib_with_mod", "loop")
    /\ Top.i = 2
    /\ ReturnToTest("fib_with_mod", Top.n, Top.answer, zeros)

----------------------------------------------------------------------------
\* matrix_power_with_mod

\* A power function returns a matrix to its caller; the returned matrices
\* are logged in call order.
PowerReturn(m) ==
    /\ stack' = Pop
    /\ retMat' = m
    /\ trace' = Append(trace, [pow |-> Top.pow, mat |-> m])
    /\ UNCHANGED <<modulo, calls, results, status, mul_calls, pow_calls,
                   wrapped>>

\* The even branch peeling one factor instead of halving.
even_pow_linear(pow) == pow - 1

\* matrix_power_with_mod(mat, pow / 2, modulo)
even_pow(pow) == pow \div 2

\* matrix_power_with_mod(mat, pow - 1, modulo)
odd_pow(pow) == U64(pow - 1)

\* if pow == 1 { return mat.clone(); }  if pow % 2 == 1 { ... recursive call }
\* let x = matrix_power_with_mod(mat, pow / 2, modulo);
matrix_power_with_mod_start ==
    /\ Running("matrix_power_with_mod", "start")
    /\ IF Top.pow = 1 THEN PowerReturn(Top.mat)
       ELSE /\ stack' = IF Top.pow % 2 = 1
                 THEN PushOver([Top EXCEPT !.pc = "odd"],
                        PowerFrame("matrix_power_with_mod", Top.mat,
                                   odd_pow(Top.pow)))
                 ELSE PushOver([Top EXCEPT !.pc = "even"],
                        PowerFrame("matrix_power_with_mod", Top.mat,
                                   even_pow(Top.pow)))
            /\ pow_calls' = pow_calls + 1
            /\ UNCHANGED <<modulo, calls, retMat, results, status,
                           mul_calls, wrapped, trace>>

\* return multiply_with_mod(&mat, &matrix_power_with_mod(..), modulo);
matrix_power_with_mod_odd ==
    /\ Running("matrix_power_with_mod", "odd")
    /\ stack' = PushOver([Top EXCEPT !.pc = "mul"],
                         MultiplyFrame("multiply_with_mod", Top.mat, retMat))
    /\ mul_calls' = mul_calls + 1
    /\ UNCHANGED <<modulo, calls, retMat, results, status, pow_calls,
                   wrapped, trace>>

\* x is bound to the returned matrix; multiply_with_mod(&x, &x, modulo)
matrix_power_with_mod_even ==
    /\ Running("matrix_power_with_mod", "even")
    /\ stack' = PushOver([Top EXCEPT !.pc = "mul", !.x = retMat],
                         MultiplyFrame("multiply_with_mod", retMat, retMat))
    /\ mul_calls' = mul_calls + 1
    /\ UNCHANGED <<modulo, calls, retMat, results, status, pow_calls,
                   wrapped, trace>>

\* the product is the value of the function
matrix_power_with_mod_return ==
    /\ Running("matrix_power_with_mod", "mul")
    /\ PowerReturn(retMat)

----------------------------------------------------------------------------
\* multiply_with_mod

\* Advance the loop counters of for i { for j { for k { .. } } }.
NextIJK(fr) ==
    IF fr.k < 1 THEN [fr EXCEPT !.k = fr.k + 1]
    ELSE IF fr.j < 1 THEN [fr EXCEPT !.k = 0, !.j = fr.j + 1]
    ELSE [fr EXCEPT !.k = 0, !.j = 0, !.i = fr.i + 1]

\* big_val = (mat_ij + a_ik * b_kj) % &big_mod;
\* return_mat[[i, j]] = small_big_int_to_u64(&big_val);
multiply_with_mod_loop ==
    /\ Running("multiply_with_mod", "loop")
    /\ Top.i < 2
    /\ IF modulo = 0 THEN Panic(stack[1].fn, stack[1].n)
       ELSE LET i == Top.i  j == Top.j  k == Top.k IN
            /\ stack' = SetTop(NextIJK([Top EXCEPT !.return_mat[i][j] =
                   multiply_cell(Top.return_mat[i][j], Top.a[i][k],
                                 Top.b[k][j], modulo)]))
            /\ wrapped' = (wrapped \/
                   multiply_cell_wraps(Top.return_mat[i][j], Top.a[i][k],
                                       Top.b[k][j], modulo))
            /\ UNCHANGED <<modulo, calls, retMat, results, status,
                           mul_calls, pow_calls, trace>>

\* return_mat
multiply_with_mod_return ==
    /\ Running("multiply_with_mod", "loop")
    /\ Top.i = 2
    /\ IF Depth = 1
       THEN ReturnToTest("multiply_with_mod", 0, 0, Top.return_mat)
       ELSE /\ stack' = Pop
            /\ retMat' = Top.return_mat
            /\ UNCHANGED <<modulo, calls, results, status, mul_calls,
                           pow_calls, wrapped, trace>>

----------------------------------------------------------------------------
\* bigfib_with_mod

\* if n == &ZERO || n == &ONE { return n.clone(); }
\* ... let power_t = bigfib_matrix_power(&t, n, modulo);
bigfib_with_mod_start ==
    /\ Running("bigfib_with_mod", "start")
    /\ IF Top.n = 0 \/ Top.n = 1 THEN
            /\ ReturnToTest("bigfib_with_mod", Top.n, Top.n, zeros)
       ELSE /\ stack' = PushOver([Top EXCEPT !.pc = "power_t"],
                                 PowerFrame("bigfib_matrix_power", t, Top.n))
            /\ pow_calls' = pow_calls + 1
            /\ UNCHANGED <<modulo, calls, retMat, results, status,
                           mul_calls, wrapped, trace>>

\* power_t is bound to the returned matrix; let mut answer = ZERO.clone();
bigfib_with_mod_power_t ==
    /\ Running("bigfib_with_mod", "power_t")
    /\ stack' = SetTop([Top EXCEPT !.pc = "loop", !.x = retMat,
                                   !.answer = 0, !.i = 0])
    /\ UNCHANGED <<modulo, calls, retMat, results, status,
                   mul_calls, pow_calls, wrapped, trace>>

\* answer = (answer + (&power_t[[0, i]] * &f[i])) % modulo;
bigfib_with_mod_loop ==
    /\ Running("bigfib_with_mod", "loop")
    /\ Top.i < 2
    /\ IF modulo = 0 THEN Panic("bigfib_with_mod", Top.n)
       ELSE /\ stack' = SetTop([Top EXCEPT
                   !.answer = big_answer_step(Top.answer, Top.x[0][Top.i],
                                              f[Top.i], modulo),
                   !.i = Top.i + 1])
            /\ UNCHANGED <<modulo, calls, retMat, results, status,
                           mul_calls, pow_calls, wrapped, trace>>

\* return answer;
bigfib_with_mod_return ==
    /\ Running("bigfib_with_mod", "loop")
    /\ Top.i = 2
    /\ ReturnToTest("bigfib_with_mod", Top.n, Top.answer, zeros)

----------------------------------------------------------------------------
\* bigfib_matrix_power

\* bigfib_matrix_power(mat, &(pow / TWO), modulo)
big_even_pow(pow) == pow \div 2

\* bigfib_matrix_power(mat, &(pow - ONE), modulo)
big_odd_pow(pow) == pow - 1

\* if pow == &ONE { return mat.clone(); }  if pow % &TWO == ONE { ... }
\* let x = bigfib_matrix_power(mat, &(pow / TWO), modulo);
bigfib_matrix_power_start ==
    /\ Running("bigfib_matrix_power", "start")
    /\ IF Top.pow = 1 THEN PowerReturn(Top.mat)
       ELSE /\ stack' = IF Top.pow % 2 = 1
                 THEN PushOver([Top EXCEPT !.pc = "odd"],
                        PowerFrame("bigfib_matrix_power", Top.mat,
                                   big_odd_pow(Top.pow)))
                 ELSE PushOver([Top EXCEPT !.pc = "even"],
                        PowerFrame("bigfib_matrix_power", Top.mat,
                                   big_even_pow(Top.pow)))
            /\ pow_calls' = pow_calls + 1
            /\ UNCHANGED <<modulo, calls, retMat, results, status,
                           mul_calls, wrapped, trace>>

\* return bigfib_multiply(&mat, &bigfib_matrix_power(..), modulo);
bigfib_matrix_power_odd ==
    /\ Running("bigfib_matrix_power", "odd")
    /\ stack' = PushOver([Top EXCEPT !.pc = "mul"],
                         MultiplyFrame("bigfib_multiply", Top.mat, retMat))
    /\ mul_calls' = mul_calls + 1
    /\ UNCHANGED <<modulo, calls, retMat, results, status, pow_calls,
                   wrapped, trace>>

\* x is bound to the returned matrix; bigfib_multiply(&x, &x, modulo)
bigfib_matrix_power_even ==
    /\ Running("bigfib_matrix_power", "even")
    /\ stack' = PushOver([Top EXCEPT !.pc = "mul", !.x = retMat],
                         MultiplyFrame("bigfib_multiply", retMat, retMat))
    /\ mul_calls' = mul_calls + 1
    /\ UNCHANGED <<modulo, calls, retMat, results, status, pow_calls,
                   wrapped, trace>>

\* the product is the value of the function
bigfib_matrix_power_return ==
    /\ Running("bigfib_matrix_power", "mul")
    /\ PowerReturn(retMat)

----------------------------------------------------------------------------
\* bigfib_multiply

\* let big_val = &return_mat[[i, j]] + (&a[[i, k]] * &b[[k, j]]);
\* return_mat[[i, j]] = big_val % modulo;
bigfib_multiply_loop ==
    /\ Running("bigfib_multiply", "loop")
    /\ Top.i < 2
    /\ IF modulo = 0 THEN Panic(stack[1].fn, stack[1].n)
       ELSE LET i == Top.i  j == Top.j  k == Top.k IN
            /\ stack' = SetTop(NextIJK([Top EXCEPT !.return_mat[i][j] =
                   bigfib_cell(Top.return_mat[i][j], Top.a[i][k],
                               Top.b[k][j], modulo)]))
            /\ UNCHANGED <<modulo, calls, retMat, results, status,
                           mul_calls, pow_calls, wrapped, trace>>

\* return_mat
bigfib_multiply_return ==
    /\ Running("bigfib_multiply", "loop")
    /\ Top.i = 2
    /\ stack' = Pop
    /\ retMat' = Top.return_mat
    /\ UNCHANGED <<modulo, calls, results, status, mul_calls,
                   pow_calls, wrapped, trace>>

----------------------------------------------------------------------------
Next ==
    \/ test_call
    \/ fib_with_mod_start
    \/ fib_with_mod_power_t
    \/ fib_with_mod_loop
    \/ fib_with_mod_return
    \/ matrix_power_with_mod_start
    \/ matrix_power_with_mod_odd
    \/ matrix_power_with_mod_even
    \/ matrix_power_with_mod_return
    \/ multiply_with_mod_loop
    \/ multiply_with_mod_return
    \/ bigfib_with_mod_start
    \/ bigfib_with_mod_power_t
    \/ bigfib_with_mod_loop
    \/ bigfib_with_mod_return
    \/ bigfib_matrix_power_start
    \/ bigfib_matrix_power_odd
    \/ bigfib_matrix_power_even
    \/ bigfib_matrix_power_return
    \/ bigfib_multiply_loop
    \/ bigfib_multiply_return

Spec == Init /\ [][Next]_vars

\* Every step is taken by the one running thread, which is never suspended.
FairSpec == InitEntryOnly /\ [][Next]_vars /\ WF_vars(Next)

----------------------------------------------------------------------------
\* Reference values: the Fibonacci numbers over the unbounded integers.

\* FibPair(k) = <<F(k), F(k+1)>> with F(0) = 0, F(1) = 1.
RECURSIVE FibPair(_)
FibPair(k) == IF k = 0 THEN <<0, 1>>
              ELSE LET q == FibPair(k - 1) IN <<q[2], q[1] + q[2]>>

F(k) == FibPair(k)[1]

\* T^p mod m for T = [[0,1],[1,1]].
FibMat(p, m) == arr2(F(p - 1) % m, F(p) % m, F(p) % m, F(p + 1) % m)

RECURSIVE Log2(_)
Log2(p) == IF p <= 1 THEN 0 ELSE 1 + Log2(p \div 2)

Calls == 1..Len(results)
Returned(i, fn) == /\ results[i].fn = fn
                   /\ results[i].outcome = "returned"
Frames == 1..Depth
PowerFns == {"matrix_power_with_mod", "bigfib_matrix_power"}
InCells(m, bound) == \A i \in 0..1, j \in 0..1 : m[i][j] >= 0 /\ m[i][j] < bound

----------------------------------------------------------------------------
\* C1: for every n >= 0 and m >= 1, fib_with_mod(n, m) returns r with
\* 0 <= r < m and r = F(n) mod m, the corner m = 1 and the base cases
\* n = 0, n = 1 included.
C1_FibWithModIsFibMod ==
    \A c \in Calls :
        (Returned(c, "fib_with_mod") /\ modulo >= 1) =>
            /\ results[c].value >= 0
            /\ results[c].value < modulo
            /\ results[c].value = F(results[c].n) % modulo

\* C2: for every m >= 1, fib_with_mod(0, m) = 0 and fib_with_mod(1, m) = 1,
\* produced without a call to matrix_power_with_mod or multiply_with_mod;
\* bigfib_with_mod(n, m) returns n itself when n is 0 or 1.
C2_BaseCases ==
    \A c \in Calls :
        /\ (results[c].fn = "fib_with_mod" /\ results[c].n \in {0, 1}
                /\ modulo >= 1) =>
              /\ results[c].outcome = "returned"
              /\ results[c].value = results[c].n
              /\ results[c].pow_calls = 0
              /\ results[c].mul_calls = 0
        /\ (results[c].fn = "bigfib_with_mod" /\ results[c].n \in {0, 1}) =>
              /\ results[c].outcome = "returned"
              /\ results[c].value = results[c].n
              /\ results[c].pow_calls = 0
              /\ results[c].mul_calls = 0

C2_Witness ==
    /\ modulo = 1
    /\ Len(results) = 2
    /\ results[1].n = 1
    /\ Returned(1, "fib_with_mod")
    /\ Returned(2, "bigfib_with_mod")
    /\ results[1].value = 1

\* The matrices returned so far by the power function of the running call
\* next to those an earlier, completed call returned.
PrefixAgrees(tr, full) ==
    /\ Len(tr) <= Len(full)
    /\ \A s \in 1..Len(tr) : tr[s] = full[s]

\* C3: for all n >= 0 and m >= 1 in the bounded width, fib_with_mod(n, m)
\* equals bigfib_with_mod(n, m), and stepping the two through the same
\* recursion on the exponent their intermediate matrices agree entry by
\* entry.
C3_EntryPointsAgree ==
    modulo >= 1 =>
        /\ \A c \in Calls, d \in Calls :
              (Returned(c, "fib_with_mod") /\ Returned(d, "bigfib_with_mod")
                    /\ results[c].n = results[d].n) =>
                 /\ results[c].value = results[d].value
                 /\ results[c].trace = results[d].trace
        /\ (status = "running" /\ Len(results) = 1
                /\ stack[1].fn \in EntryPoints
                /\ results[1].fn \in EntryPoints
                /\ stack[1].fn # results[1].fn
                /\ stack[1].n = results[1].n) =>
              /\ results[1].outcome = "returned"
              /\ PrefixAgrees(trace, results[1].trace)

C3_Witness ==
    /\ modulo = U64Max
    /\ Len(results) = 2
    /\ Returned(1, "fib_with_mod")
    /\ Returned(2, "bigfib_with_mod")
    /\ results[1].n = 7
    /\ results[2].value = 13
    /\ Len(results[2].trace) = 5

\* C4: with modulo = 0 both entry points end in a failure for every n >= 0,
\* n = 0 and n = 1 included; neither returns a numeric result.
C4_ZeroModuloFails ==
    \A c \in Calls :
        (modulo = 0 /\ results[c].fn \in EntryPoints) =>
            results[c].outcome = "panicked"

\* C5: for all 2x2 matrices A, B with entries in [0, 2^w - 1] and every m in
\* [1, 2^w - 1], multiply_with_mod(A, B, m) returns C with
\* C[i][j] = (A[i][0]*B[0][j] + A[i][1]*B[1][j]) mod m over the unbounded
\* integers; no product, running sum or narrowing step wraps modulo 2^w,
\* and neither does the accumulation loop of fib_with_mod.
C5_MultiplyNeverWraps ==
    /\ wrapped = FALSE
    /\ (Running("multiply_with_mod", "loop") /\ Top.i = 2) =>
          \A i \in 0..1, j \in 0..1 :
              Top.return_mat[i][j] =
                  (Top.a[i][0] * Top.b[0][j] + Top.a[i][1] * Top.b[1][j])
                      % modulo
    /\ \A c \in Calls :
          (Returned(c, "fib_with_mod") /\ results[c].n >= 2) =>
              results[c].value = Last(results[c].trace).mat[0][1] % modulo

C5_Witness ==
    /\ modulo = U64Max
    /\ Running("multiply_with_mod", "loop")
    /\ Depth = 1
    /\ Top.i = 2
    /\ Top.a = arr2(U64Max - 1, U64Max - 1, U64Max - 1, U64Max - 1)
    /\ Top.b = Top.a
    /\ Top.return_mat = arr2(2, 2, 2, 2)

\* C6: for all n >= 2 and m >= 1,
\* fib_with_mod(n, m) = (fib_with_mod(n-1, m) + fib_with_mod(n-2, m)) mod m,
\* the right-hand side being the values the entry point returns for n-1 and
\* n-2 (base-case returns included).
C6_Recurrence ==
    \A c \in Calls, d \in Calls, e \in Calls :
        (/\ modulo >= 1
         /\ Returned(c, "fib_with_mod")
         /\ Returned(d, "fib_with_mod")
         /\ Returned(e, "fib_with_mod")
         /\ results[c].n >= 2
         /\ results[d].n = results[c].n - 1
         /\ results[e].n = results[c].n - 2) =>
            results[c].value =
                (results[d].value + results[e].value) % modulo

C6_Witness ==
    /\ modulo = 1
    /\ Len(results) = 3
    /\ Returned(1, "fib_with_mod")
    /\ Returned(2, "fib_with_mod")
    /\ Returned(3, "fib_with_mod")
    /\ results[1].n = 2
    /\ results[1].value = 0
    /\ results[2].value = 1
    /\ results[3].value = 0

\* C7: in every state of a call fib_with_mod(n, m) or bigfib_with_mod(n, m)
\* with m >= 1, every matrix entry (T as constructed, every matrix returned
\* by the power and multiply functions, every partially filled return_mat
\* cell) and the answer accumulator lies in [0, m), also for m = 1.
C7_EntriesReduced ==
    (modulo >= 1 /\ status = "running" /\ stack[1].fn \in EntryPoints) =>
        /\ InCells(retMat, modulo)
        /\ \A d \in Frames :
              /\ InCells(stack[d].mat, modulo)
              /\ InCells(stack[d].a, modulo)
              /\ InCells(stack[d].b, modulo)
              /\ InCells(stack[d].x, modulo)
              /\ InCells(stack[d].return_mat, modulo)
              /\ stack[d].answer >= 0
              /\ stack[d].answer < modulo

\* C8: for T = [[0,1],[1,1]], every p >= 1 and every m >= 1,
\* matrix_power_with_mod(T, p, m) and bigfib_matrix_power return
\* [[F(p-1) mod m, F(p) mod m], [F(p) mod m, F(p+1) mod m]], every entry in
\* [0, m), in the p = 1 branch, the odd branch and the even branch.
C8_PowerIsFibMatrix ==
    modulo >= 1 =>
        \A s \in 1..Len(trace) :
            /\ trace[s].pow >= 1
            /\ trace[s].mat = FibMat(trace[s].pow, modulo)
            /\ InCells(trace[s].mat, modulo)

\* The multiply_with_mod calls made so far on behalf of the invocation in
\* frame d stay within 2 * floor(log2(pow)).
MultiplyBound ==
    \A d \in Frames :
        stack[d].fn = "matrix_power_with_mod" =>
            /\ mul_calls - stack[d].mul0 <= 2 * Log2(stack[d].pow)
            /\ stack[d].pow = 1 => mul_calls = stack[d].mul0

\* C9: for every p >= 1 a call matrix_power_with_mod(T, p, m) with m >= 1
\* terminates and makes at most 2 * floor(log2(p)) calls of
\* multiply_with_mod, none for p = 1.
C9_LogarithmicMultiplies ==
    /\ [](modulo >= 1 => MultiplyBound)
    /\ (modulo >= 1) => <>[](Depth = 0)

C9_Witness ==
    /\ modulo = 3
    /\ Running("matrix_power_with_mod", "mul")
    /\ Depth = 2
    /\ Top.pow = 7
    /\ mul_calls - Top.mul0 = 4
    /\ retMat = FibMat(7, 3)

\* C10: in every call of an entry point every invocation of the
\* exponentiation function, top-level or recursive, receives pow >= 1;
\* pow = 0 is unreachable.
C10_ExponentPositive ==
    \A d \in Frames :
        stack[d].fn \in PowerFns => stack[d].pow >= 1

C10_Witness ==
    /\ Depth = 5
    /\ Top.fn = "bigfib_matrix_power"
    /\ Top.pow = 1
    /\ stack[4].pow = 2
    /\ stack[3].pow = 3
    /\ stack[2].pow = 6
    /\ stack[1].n = 6

====
